---- MODULE Spec2Model ----
(***************************************************************************)
(* A model of pkg/sbom/nodelist.go: the NodeList graph container of        *)
(* protobom and its algebra (cleanEdges, Add, RemoveNodes, Intersect,      *)
(* Union, Equal, RelateNodeListAtID, GetNodesByPurlType).                   *)
(*                                                                         *)
(* Go values are modelled with their sharing:                              *)
(*   - *Node pointers are addresses into the heap `nodes`;                 *)
(*   - a []string that can be shared between owners (RootElements, and an  *)
(*     Edge.To that was assigned from a RootElements slice) is a view      *)
(*     (arr, len) of a backing array in `arrs`, whose length is the        *)
(*     capacity;                                                           *)
(*   - an Edge.To that was built privately is held by value (own).         *)
(* Ranging over a Go map is a nondeterministic choice of an order.         *)
(***************************************************************************)
EXTENDS Integers, Sequences, FiniteSets, TLC

VARIABLES nl, nodes, arrs, last, pre, steps, indep

vars == <<nl, nodes, arrs, last, pre, steps, indep>>

(***************************************************************************)
(* Bounds of the model.                                                    *)
(***************************************************************************)
MaxSteps == 2

MaxSpliceSteps == 3

Lists == {"A", "B", "R"}

NoList == "nil"

NodeAddrs == 1..(4 * Cardinality(Lists))

ArrIds == 1..(Cardinality(Lists) + MaxSpliceSteps + 1)

(***************************************************************************)
(* Strings.  Ids and names are atoms; a package url and a purl type are    *)
(* sequences of characters so that strings.HasPrefix and fmt.Sprintf are   *)
(* computed.  StrOrder is the order sort.Strings uses on the ids in play.  *)
(***************************************************************************)
StrOrder == <<"a", "b", "c", "z">>

Rank(s) == CHOOSE i \in 1..Len(StrOrder) : StrOrder[i] = s

NoPurl == <<>>

DebPurl == <<"p", "k", "g", ":", "d", "e", "b", "/", "x">>

QuirkPurl == <<"p", "k", "g", ":", "/", "d", "e", "b", "/", "x">>

RpmPurl == <<"p", "k", "g", ":", "r", "p", "m", "/", "x">>

BlankType == <<>>

DebType == <<"d", "e", "b">>

EdgeTypes == {"dependsOn", "contains"}

HasPrefix(s, p) == Len(p) <= Len(s) /\ SubSeq(s, 1, Len(p)) = p

\* fmt.Sprintf("pkg:%s/", purlType)
SprintfPkg(t) == <<"p", "k", "g", ":">> \o t \o <<"/">>

\* fmt.Sprintf("pkg:/%s/", purlType)
SprintfPkgSlash(t) == <<"p", "k", "g", ":", "/">> \o t \o <<"/">>

(***************************************************************************)
(* Sequence helpers.                                                       *)
(***************************************************************************)
Range(s) == {s[i] : i \in 1..Len(s)}

RECURSIVE SelectIdx(_, _, _)
\* the elements of s at the positions of the set keep, in order
SelectIdx(s, keep, i) ==
    IF i > Len(s) THEN <<>>
    ELSE (IF i \in keep THEN <<s[i]>> ELSE <<>>) \o SelectIdx(s, keep, i + 1)

RECURSIVE Orders(_)
\* every sequence that lists the elements of the set S once each: the orders
\* in which a range over a Go map can visit its keys
Orders(S) ==
    IF S = {} THEN {<<>>}
    ELSE UNION {{<<x>> \o p : p \in Orders(S \ {x})} : x \in S}

RECURSIVE InsertSorted(_, _)
InsertSorted(x, s) ==
    IF s = <<>> THEN <<x>>
    ELSE IF Rank(x) <= Rank(Head(s)) THEN <<x>> \o s
    ELSE <<Head(s)>> \o InsertSorted(x, Tail(s))

RECURSIVE SortStrings(_)
\* sort.Strings
SortStrings(s) == IF s = <<>> THEN <<>> ELSE InsertSorted(Head(s), SortStrings(Tail(s)))

(***************************************************************************)
(* Node.  The fields the container reads: Id, Name and the package url     *)
(* returned by Purl().  "" and <<>> are the unset values.                  *)
(***************************************************************************)
FreeNode == [Id |-> "", Name |-> "", Purl |-> NoPurl]

\* Node.Update(m): overlay, the set fields of m replace those of n
Update(n, m) ==
    [Id |-> IF m.Id # "" THEN m.Id ELSE n.Id,
     Name |-> IF m.Name # "" THEN m.Name ELSE n.Name,
     Purl |-> IF m.Purl # NoPurl THEN m.Purl ELSE n.Purl]

\* Node.Augment(m): gap-fill, the set fields of m fill the unset fields of n
Augment(n, m) ==
    [Id |-> IF n.Id = "" THEN m.Id ELSE n.Id,
     Name |-> IF n.Name = "" THEN m.Name ELSE n.Name,
     Purl |-> IF n.Purl = NoPurl THEN m.Purl ELSE n.Purl]

\* Node.Purl()
Purl(n) == n.Purl

\* Node.flatString(): the flattened field representation
NodeFlatString(n) == <<n.Id, n.Name, n.Purl>>

\* the k lowest free addresses of the heap h, in order
RECURSIVE FreeAddrs(_, _, _)
FreeAddrs(h, k, from) ==
    IF k = 0 THEN <<>>
    ELSE LET a == CHOOSE x \in NodeAddrs :
                      /\ x >= from
                      /\ h[x] = FreeNode
                      /\ \A y \in NodeAddrs : (y >= from /\ y < x) => h[y] # FreeNode
         IN  <<a>> \o FreeAddrs(h, k - 1, a + 1)

(***************************************************************************)
(* Slices of strings.  arr = 0: no shared backing array, the elements are  *)
(* own (nil tells a nil slice from an empty one).  arr # 0: the first len  *)
(* slots of the array arrs[arr]; Len(arrs[arr]) is the capacity.           *)
(***************************************************************************)
NilSlice == [arr |-> 0, len |-> 0, own |-> <<>>, nil |-> TRUE]

\* []string{}
EmptySlice == [arr |-> 0, len |-> 0, own |-> <<>>, nil |-> FALSE]

OwnSlice(v) == [arr |-> 0, len |-> Len(v), own |-> v, nil |-> FALSE]

SliceVal(a, s) == IF s.arr = 0 THEN s.own ELSE SubSeq(a[s.arr], 1, s.len)

Cap(a, s) == IF s.arr = 0 THEN 0 ELSE Len(a[s.arr])

\* runtime.growslice for 16-byte elements below 256 elements
GrowCap(old, needed) == IF needed > 2 * old THEN needed ELSE 2 * old

RECURSIVE GrowTo(_, _)
\* the capacity after growing one element at a time up to needed
GrowTo(c, needed) ==
    IF c >= needed THEN c
    ELSE GrowTo(GrowCap(c, IF c + 1 > needed THEN needed ELSE c + 1), needed)

FreshArr(a) ==
    CHOOSE x \in ArrIds : a[x] = <<>> /\ \A y \in ArrIds : y < x => a[y] # <<>>

Pad(v, c) == [i \in 1..c |-> IF i <= Len(v) THEN v[i] ELSE ""]

\* the array b with v written from slot at + 1 on
WriteAt(b, at, v) ==
    [i \in 1..Len(b) |-> IF i > at /\ i <= at + Len(v) THEN v[i - at] ELSE b[i]]

\* s = append(s, x) for each x of v in turn, s a slice backed by an array
\* (RootElements).  Result: the slice and the arrays.
AppendEach(a, s, v) ==
    IF v = <<>> THEN [s |-> s, arrs |-> a]
    ELSE LET room == Cap(a, s) - s.len
             fit == IF Len(v) <= room THEN Len(v) ELSE room
             a1 == IF fit = 0 THEN a
                   ELSE [a EXCEPT ![s.arr] = WriteAt(a[s.arr], s.len, SubSeq(v, 1, fit))]
         IN  IF Len(v) <= room
             THEN [s |-> [s EXCEPT !.len = s.len + Len(v)], arrs |-> a1]
             ELSE LET c == GrowTo(GrowCap(Cap(a, s), s.len + fit + 1), s.len + Len(v))
                      f == FreshArr(a1)
                  IN  [s |-> [arr |-> f, len |-> s.len + Len(v), own |-> <<>>, nil |-> FALSE],
                       arrs |-> [a1 EXCEPT ![f] = Pad(SliceVal(a, s) \o v, c)]]

\* s = append(s, v...) for an Edge.To: in place when the shared array has
\* room, else into storage of its own
AppendAll(a, s, v) ==
    IF s.arr = 0 THEN [s |-> OwnSlice(s.own \o v), arrs |-> a]
    ELSE IF Len(v) <= Cap(a, s) - s.len
    THEN [s |-> [s EXCEPT !.len = s.len + Len(v)],
          arrs |-> [a EXCEPT ![s.arr] = WriteAt(a[s.arr], s.len, v)]]
    ELSE [s |-> OwnSlice(SliceVal(a, s) \o v), arrs |-> a]

\* SortInPlace with the sort left out: Equal compares sorted copies
SortInPlaceOfCopy(a, s) == a

\* sort.Strings(s): in place, seen by every slice of the same array
SortInPlace(a, s) ==
    IF s.arr = 0 THEN a
    ELSE [a EXCEPT ![s.arr] = WriteAt(a[s.arr], 0, SortStrings(SliceVal(a, s)))]

(***************************************************************************)
(* Edge and NodeList values.                                               *)
(***************************************************************************)
Edge(t, from, to) == [Type |-> t, From |-> from, To |-> to]

\* Edge.Copy(): a deep clone, the destinations in storage of its own
EdgeCopy(a, e) == Edge(e.Type, e.From, OwnSlice(SliceVal(a, e.To)))

\* Edge.PointsTo(id)
PointsTo(a, e, id) == id \in Range(SliceVal(a, e.To))

\* Edge.flatString(): type, origin, sorted destinations
EdgeFlatString(a, e) == <<e.Type, e.From, SortStrings(SliceVal(a, e.To))>>

\* &NodeList{}
ZeroList == [Nodes |-> <<>>, Edges |-> <<>>, RootElements |-> NilSlice]

\* the ids of the nodes of a list, in order
NodeIds(h, l) == [i \in 1..Len(l.Nodes) |-> h[l.Nodes[i]].Id]

\* indexNodes: id -> node pointer, the last node of an id wins
indexNodes(h, l) ==
    [id \in Range(NodeIds(h, l)) |->
        l.Nodes[CHOOSE i \in 1..Len(l.Nodes) :
                    /\ h[l.Nodes[i]].Id = id
                    /\ \A j \in 1..Len(l.Nodes) : h[l.Nodes[j]].Id = id => j <= i]]

\* indexEdges: (origin, type) -> the positions of the edges, in order
indexEdges(l) ==
    [k \in {<<l.Edges[i].From, l.Edges[i].Type>> : i \in 1..Len(l.Edges)} |->
        SelectIdx([i \in 1..Len(l.Edges) |-> i],
                  {i \in 1..Len(l.Edges) : <<l.Edges[i].From, l.Edges[i].Type>> = k}, 1)]

\* indexRootElements
indexRootElements(a, l) == Range(SliceVal(a, l.RootElements))

(***************************************************************************)
(* cleanEdges.  newTos maps each (origin, type) key seen on an edge whose   *)
(* origin is a node to the set of its destinations that are nodes; the new *)
(* edge list ranges over the keys, and each To over the destinations, in   *)
(* map order.                                                              *)
(***************************************************************************)
RECURSIVE CleanLoopKeepsDangling(_, _, _, _, _)
\* CleanLoop without the test of lines 93-95: destinations that are not nodes
\* are kept
CleanLoopKeepsDangling(a, edges, ids, i, newTos) ==
    IF i > Len(edges) THEN newTos
    ELSE LET edge == edges[i]
             edgeKey == <<edge.From, edge.Type>>
             seen == IF edgeKey \in DOMAIN newTos THEN newTos[edgeKey] ELSE {}
             tos == seen \cup Range(SliceVal(a, edge.To))
         IN  IF edge.From \notin ids
             THEN CleanLoopKeepsDangling(a, edges, ids, i + 1, newTos)
             ELSE CleanLoopKeepsDangling(a, edges, ids, i + 1,
                            [k \in DOMAIN newTos \cup {edgeKey} |->
                                IF k = edgeKey THEN tos ELSE newTos[k]])

RECURSIVE CleanLoopSkipsEmpty(_, _, _, _, _)
\* CleanLoop that also skips an edge that comes in without destinations
CleanLoopSkipsEmpty(a, edges, ids, i, newTos) ==
    IF i > Len(edges) THEN newTos
    ELSE LET edge == edges[i]
             edgeKey == <<edge.From, edge.Type>>
             seen == IF edgeKey \in DOMAIN newTos THEN newTos[edgeKey] ELSE {}
             tos == seen \cup {s \in Range(SliceVal(a, edge.To)) : s \in ids}
         IN  IF edge.From \notin ids \/ SliceVal(a, edge.To) = <<>>
             THEN CleanLoopSkipsEmpty(a, edges, ids, i + 1, newTos)
             ELSE CleanLoopSkipsEmpty(a, edges, ids, i + 1,
                            [k \in DOMAIN newTos \cup {edgeKey} |->
                                IF k = edgeKey THEN tos ELSE newTos[k]])

RECURSIVE CleanLoop(_, _, _, _, _)
CleanLoop(a, edges, ids, i, newTos) ==
    IF i > Len(edges) THEN newTos
    ELSE LET edge == edges[i]
             edgeKey == <<edge.From, edge.Type>>
             seen == IF edgeKey \in DOMAIN newTos THEN newTos[edgeKey] ELSE {}
             tos == seen \cup {s \in Range(SliceVal(a, edge.To)) : s \in ids}
         IN  IF edge.From \notin ids
             THEN CleanLoop(a, edges, ids, i + 1, newTos)
             ELSE CleanLoop(a, edges, ids, i + 1,
                            [k \in DOMAIN newTos \cup {edgeKey} |->
                                IF k = edgeKey THEN tos ELSE newTos[k]])

RECURSIVE CleanBuildSorted(_, _)
\* CleanBuild with each To ranged over in sorted order instead of map order
CleanBuildSorted(keys, newTos) ==
    IF keys = <<>> THEN {<<>>}
    ELSE {<<Edge(Head(keys)[2], Head(keys)[1], OwnSlice(to))>> \o rest :
              to \in {o \in Orders(newTos[Head(keys)]) : o = SortStrings(o)},
              rest \in CleanBuildSorted(Tail(keys), newTos)}

RECURSIVE CleanBuild(_, _)
CleanBuild(keys, newTos) ==
    IF keys = <<>> THEN {<<>>}
    ELSE {<<Edge(Head(keys)[2], Head(keys)[1], OwnSlice(to))>> \o rest :
              to \in Orders(newTos[Head(keys)]), rest \in CleanBuild(Tail(keys), newTos)}

\* the edge lists cleanEdges can leave in a list with these nodes and edges
cleanEdges(h, a, l) ==
    LET newTos == CleanLoop(a, l.Edges, Range(NodeIds(h, l)), 1, <<>>)
    IN  UNION {CleanBuild(keys, newTos) : keys \in Orders(DOMAIN newTos)}

(***************************************************************************)
(* Add.                                                                    *)
(***************************************************************************)
\* the node handed to Augment for a node of nl2 whose id exists in nl
\* (line 124 binds n to existingNodes[id], line 125 passes n)
AddAugmentArg(existing, other) == existing

RECURSIVE AddNodesLoopAppendsAll(_, _, _, _, _)
\* AddNodesLoop without the test of line 124: every node of nl2 is appended
AddNodesLoopAppendsAll(h, ns, existingNodes, nodes2, i) ==
    IF i > Len(nodes2) THEN [h |-> h, Nodes |-> ns]
    ELSE AddNodesLoopAppendsAll(h, Append(ns, nodes2[i]), existingNodes, nodes2, i + 1)

RECURSIVE AddNodesLoop(_, _, _, _, _)
\* result: the heap and the node list of nl
AddNodesLoop(h, ns, existingNodes, nodes2, i) ==
    IF i > Len(nodes2) THEN [h |-> h, Nodes |-> ns]
    ELSE LET id == h[nodes2[i]].Id
         IN  IF id \in DOMAIN existingNodes
             THEN AddNodesLoop(
                      [h EXCEPT ![existingNodes[id]] =
                          Augment(h[existingNodes[id]],
                                  h[AddAugmentArg(existingNodes[id], nodes2[i])])],
                      ns, existingNodes, nodes2, i + 1)
             ELSE AddNodesLoop(h, Append(ns, nodes2[i]), existingNodes, nodes2, i + 1)

RECURSIVE AddEdgesLoop(_, _, _, _, _)
\* result: the arrays and the edge list of nl
AddEdgesLoop(a, es, existingEdges, edges2, i) ==
    IF i > Len(edges2) THEN [arrs |-> a, Edges |-> es]
    ELSE LET e == edges2[i]
             k == <<e.From, e.Type>>
         IN  IF k \notin DOMAIN existingEdges
             THEN AddEdgesLoop(a, Append(es, e), existingEdges, edges2, i + 1)
             ELSE LET pos == existingEdges[k][1]
                      r == AppendAll(a, es[pos].To, SliceVal(a, e.To))
                  IN  AddEdgesLoop(r.arrs, [es EXCEPT ![pos].To = r.s],
                                   existingEdges, edges2, i + 1)

\* the elements of v that are not in the set index, in order
NotIn(v, index) == SelectSeq(v, LAMBDA id : id \notin index)

\* nl.Add(nl2) on the lists named x and y: the possible outcomes
Add(m, x, y) ==
    LET l == m.nl[x]
        l2 == m.nl[y]
        n == AddNodesLoop(m.nodes, l.Nodes, indexNodes(m.nodes, l), l2.Nodes, 1)
        e == AddEdgesLoop(m.arrs, l.Edges, indexEdges(l), l2.Edges, 1)
        r == AppendEach(e.arrs, l.RootElements,
                        NotIn(SliceVal(e.arrs, l2.RootElements),
                              indexRootElements(e.arrs, l)))
        dirty == [Nodes |-> n.Nodes, Edges |-> e.Edges, RootElements |-> r.s]
    IN  {[nl |-> [m.nl EXCEPT ![x] = [dirty EXCEPT !.Edges = clean]],
          nodes |-> n.h, arrs |-> r.arrs] : clean \in cleanEdges(n.h, r.arrs, dirty)}

(***************************************************************************)
(* RemoveNodes.                                                            *)
(***************************************************************************)
\* RemoveNodes without the cleanEdges of line 173
RemoveNodesKeepsEdges(m, x, ids) ==
    LET l == m.nl[x]
        idDict == Range(ids)
        newNodeList == SelectSeq(l.Nodes, LAMBDA p : m.nodes[p].Id \notin idDict)
    IN  {[nl |-> [m.nl EXCEPT ![x] = [l EXCEPT !.Nodes = newNodeList]],
          nodes |-> m.nodes, arrs |-> m.arrs]}

RemoveNodes(m, x, ids) ==
    LET l == m.nl[x]
        idDict == Range(ids)
        newNodeList == SelectSeq(l.Nodes, LAMBDA p : m.nodes[p].Id \notin idDict)
        dirty == [l EXCEPT !.Nodes = newNodeList]
    IN  {[nl |-> [m.nl EXCEPT ![x] = [dirty EXCEPT !.Edges = clean]],
          nodes |-> m.nodes, arrs |-> m.arrs] : clean \in cleanEdges(m.nodes, m.arrs, dirty)}

(***************************************************************************)
(* GetEdgeByType, copyEdgeList, Intersect, Union.                          *)
(***************************************************************************)
\* the position of the first edge from fromElement of type t, 0 for nil
GetEdgeByType(es, fromElement, t) ==
    LET hits == {i \in 1..Len(es) : es[i].From = fromElement /\ es[i].Type = t}
    IN  IF hits = {} THEN 0 ELSE CHOOSE i \in hits : \A j \in hits : i <= j

copyEdgeList(a, original) == [i \in 1..Len(original) |-> EdgeCopy(a, original[i])]

RECURSIVE IntersectEdgesLoopReceiverOnly(_, _, _, _)
\* IntersectEdgesLoop without lines 232-233: an edge of nl2 that matches no
\* edge of ret is skipped
IntersectEdgesLoopReceiverOnly(a, es, edges2, i) ==
    IF i > Len(edges2) THEN [arrs |-> a, Edges |-> es]
    ELSE LET e == edges2[i]
             existingEdge == GetEdgeByType(es, e.From, e.Type)
         IN  IF existingEdge = 0
             THEN IntersectEdgesLoopReceiverOnly(a, es, edges2, i + 1)
             ELSE LET invDict == Range(SliceVal(a, es[existingEdge].To))
                      r == AppendAll(a, es[existingEdge].To,
                                     NotIn(SliceVal(a, e.To), invDict))
                  IN  IntersectEdgesLoopReceiverOnly(r.arrs,
                                                     [es EXCEPT ![existingEdge].To = r.s],
                                                     edges2, i + 1)

RECURSIVE IntersectEdgesLoop(_, _, _, _)
\* result: the arrays and the edge list of ret
IntersectEdgesLoop(a, es, edges2, i) ==
    IF i > Len(edges2) THEN [arrs |-> a, Edges |-> es]
    ELSE LET e == edges2[i]
             existingEdge == GetEdgeByType(es, e.From, e.Type)
         IN  IF existingEdge = 0
             THEN IntersectEdgesLoop(a, Append(es, EdgeCopy(a, e)), edges2, i + 1)
             ELSE LET invDict == Range(SliceVal(a, es[existingEdge].To))
                      r == AppendAll(a, es[existingEdge].To,
                                     NotIn(SliceVal(a, e.To), invDict))
                  IN  IntersectEdgesLoop(r.arrs, [es EXCEPT ![existingEdge].To = r.s],
                                         edges2, i + 1)

\* nl.Intersect(nl2), the result stored in the list named dst
Intersect(m, x, y, dst) ==
    LET l == m.nl[x]
        l2 == m.nl[y]
        rootElements == indexRootElements(m.arrs, l)
        rootElements2 == indexRootElements(m.arrs, l2)
        ni1 == indexNodes(m.nodes, l)
        ni2 == indexNodes(m.nodes, l2)
        common == DOMAIN ni1 \cap DOMAIN ni2
        e == IntersectEdgesLoop(m.arrs, copyEdgeList(m.arrs, l.Edges), l2.Edges, 1)
    IN  UNION {
          LET addrs == FreeAddrs(m.nodes, Len(order), 1)
              h == [p \in NodeAddrs |->
                       IF \E i \in 1..Len(order) : addrs[i] = p
                       THEN LET id == order[CHOOSE i \in 1..Len(order) : addrs[i] = p]
                            IN  Update(m.nodes[ni1[id]], m.nodes[ni2[id]])
                       ELSE m.nodes[p]]
              r == AppendEach(e.arrs, EmptySlice,
                              SelectSeq(order, LAMBDA id :
                                  id \in rootElements \/ id \in rootElements2))
              dirty == [Nodes |-> addrs, Edges |-> e.Edges, RootElements |-> r.s]
          IN  {[nl |-> [m.nl EXCEPT ![dst] = [dirty EXCEPT !.Edges = clean]],
                nodes |-> h, arrs |-> r.arrs] : clean \in cleanEdges(h, r.arrs, dirty)}
          : order \in Orders(common)}

RECURSIVE UnionNodesLoopAppendsAll(_, _, _, _, _)
\* UnionNodesLoop with the node of nl2 appended also when its id exists
UnionNodesLoopAppendsAll(h, ns, nodeindex, nodes2, i) ==
    IF i > Len(nodes2) THEN [h |-> h, Nodes |-> ns]
    ELSE LET id == h[nodes2[i]].Id
         IN  IF id \in DOMAIN nodeindex
             THEN UnionNodesLoopAppendsAll(
                      [h EXCEPT ![nodeindex[id]] = Update(h[nodeindex[id]], h[nodes2[i]])],
                      Append(ns, nodes2[i]), nodeindex, nodes2, i + 1)
             ELSE UnionNodesLoopAppendsAll(h, Append(ns, nodes2[i]), nodeindex, nodes2, i + 1)

RECURSIVE UnionNodesLoopAugments(_, _, _, _, _)
\* UnionNodesLoop with the common node gap-filled (Augment) instead of
\* overlaid (Update)
UnionNodesLoopAugments(h, ns, nodeindex, nodes2, i) ==
    IF i > Len(nodes2) THEN [h |-> h, Nodes |-> ns]
    ELSE LET id == h[nodes2[i]].Id
         IN  IF id \in DOMAIN nodeindex
             THEN UnionNodesLoopAugments(
                      [h EXCEPT ![nodeindex[id]] = Augment(h[nodeindex[id]], h[nodes2[i]])],
                      ns, nodeindex, nodes2, i + 1)
             ELSE UnionNodesLoopAugments(h, Append(ns, nodes2[i]), nodeindex, nodes2, i + 1)

RECURSIVE UnionNodesLoop(_, _, _, _, _)
\* result: the heap and the node list of ret
UnionNodesLoop(h, ns, nodeindex, nodes2, i) ==
    IF i > Len(nodes2) THEN [h |-> h, Nodes |-> ns]
    ELSE LET id == h[nodes2[i]].Id
         IN  IF id \in DOMAIN nodeindex
             THEN UnionNodesLoop(
                      [h EXCEPT ![nodeindex[id]] = Update(h[nodeindex[id]], h[nodes2[i]])],
                      ns, nodeindex, nodes2, i + 1)
             ELSE UnionNodesLoop(h, Append(ns, nodes2[i]), nodeindex, nodes2, i + 1)

RECURSIVE UnionToLoop(_, _, _, _, _)
\* lines 286-290: the destinations of e the existing edge does not point to
UnionToLoop(a, es, existingEdge, tos, j) ==
    IF j > Len(tos) THEN [arrs |-> a, Edges |-> es]
    ELSE IF PointsTo(a, es[existingEdge], tos[j])
    THEN UnionToLoop(a, es, existingEdge, tos, j + 1)
    ELSE LET r == AppendAll(a, es[existingEdge].To, <<tos[j]>>)
         IN  UnionToLoop(r.arrs, [es EXCEPT ![existingEdge].To = r.s],
                         existingEdge, tos, j + 1)

RECURSIVE UnionEdgesLoop(_, _, _, _)
UnionEdgesLoop(a, es, edges2, i) ==
    IF i > Len(edges2) THEN [arrs |-> a, Edges |-> es]
    ELSE LET e == edges2[i]
             existingEdge == GetEdgeByType(es, e.From, e.Type)
         IN  IF existingEdge = 0
             THEN UnionEdgesLoop(a, Append(es, EdgeCopy(a, e)), edges2, i + 1)
             ELSE LET r == UnionToLoop(a, es, existingEdge, SliceVal(a, e.To), 1)
                  IN  UnionEdgesLoop(r.arrs, r.Edges, edges2, i + 1)

\* the root list ret starts with (line 262 assigns nl.RootElements itself)
UnionRootElements(a, l) == l.RootElements

\* nl.Union(nl2), the result stored in the list named dst
Union(m, x, y, dst) ==
    LET l == m.nl[x]
        l2 == m.nl[y]
        addrs == FreeAddrs(m.nodes, Len(l.Nodes), 1)
        h1 == [p \in NodeAddrs |->
                  IF \E i \in 1..Len(addrs) : addrs[i] = p
                  THEN m.nodes[l.Nodes[CHOOSE i \in 1..Len(addrs) : addrs[i] = p]]
                  ELSE m.nodes[p]]
        ret0 == [Nodes |-> addrs, Edges |-> copyEdgeList(m.arrs, l.Edges),
                 RootElements |-> UnionRootElements(m.arrs, l)]
        n == UnionNodesLoop(h1, ret0.Nodes, indexNodes(h1, ret0), l2.Nodes, 1)
        e == UnionEdgesLoop(m.arrs, ret0.Edges, l2.Edges, 1)
        dirty == [Nodes |-> n.Nodes, Edges |-> e.Edges, RootElements |-> ret0.RootElements]
        r == AppendEach(e.arrs, dirty.RootElements,
                        NotIn(SliceVal(e.arrs, l2.RootElements),
                              indexRootElements(e.arrs, dirty)))
    IN  {[nl |-> [m.nl EXCEPT ![dst] =
                     [Nodes |-> n.Nodes, Edges |-> clean, RootElements |-> r.s]],
          nodes |-> n.h, arrs |-> r.arrs] : clean \in cleanEdges(n.h, e.arrs, dirty)}

(***************************************************************************)
(* GetNodesByPurlType and reconnectOrphanNodes.                            *)
(***************************************************************************)
\* lines 479-480
PurlMatches(purl, purlType) ==
    \/ HasPrefix(purl, SprintfPkg(purlType))
    \/ HasPrefix(purl, SprintfPkgSlash(purlType))

\* result: the root slice of nl and the arrays
reconnectOrphanNodes(h, a, l) ==
    LET edgeIndex == {k[1] : k \in DOMAIN indexEdges(l)}
        rootIndex == indexRootElements(a, l)
    IN  AppendEach(a, l.RootElements,
                   SelectSeq(NodeIds(h, l), LAMBDA id :
                       id \notin edgeIndex /\ id \notin rootIndex))

\* nl.GetNodesByPurlType(purlType), x = NoList for a nil receiver, the
\* result stored in the list named dst
GetNodesByPurlType(m, x, purlType, dst) ==
    IF x = NoList THEN {[m EXCEPT !.nl[dst] = ZeroList]}
    ELSE
    LET l == m.nl[x]
        ns == SelectSeq(l.Nodes, LAMBDA p : PurlMatches(Purl(m.nodes[p]), purlType))
        index == {m.nodes[ns[i]].Id : i \in 1..Len(ns)}
        es == copyEdgeList(m.arrs, SelectSeq(l.Edges, LAMBDA e : e.From \in index))
        ret0 == [Nodes |-> ns, Edges |-> es, RootElements |-> NilSlice]
        r == reconnectOrphanNodes(m.nodes, m.arrs, ret0)
        dirty == [ret0 EXCEPT !.RootElements = r.s]
    IN  {[nl |-> [m.nl EXCEPT ![dst] = [dirty EXCEPT !.Edges = clean]],
          nodes |-> m.nodes, arrs |-> r.arrs] : clean \in cleanEdges(m.nodes, r.arrs, dirty)}

(***************************************************************************)
(* RelateNodeListAtID.                                                     *)
(***************************************************************************)
\* RelateFails looking the anchor up among the origins of the edges
RelateFailsWithoutEdge(m, x, nodeID) ==
    nodeID \notin {k[1] : k \in DOMAIN indexEdges(m.nl[x])}

\* the error RelateNodeListAtID returns: TRUE for "node with ID not found"
RelateFails(m, x, nodeID) == nodeID \notin DOMAIN indexNodes(m.nodes, m.nl[x])

RelateNodeListAtID(m, x, y, nodeID, edgeType) ==
    LET l == m.nl[x]
        l2 == m.nl[y]
        nlIndex == indexNodes(m.nodes, l)
        nlEdges == indexEdges(l)
        k == <<nodeID, edgeType>>
        e == IF k \in DOMAIN nlEdges
             THEN LET pos == nlEdges[k][1]
                      r == AppendAll(m.arrs, l.Edges[pos].To,
                                     SliceVal(m.arrs, l2.RootElements))
                  IN  [arrs |-> r.arrs, Edges |-> [l.Edges EXCEPT ![pos].To = r.s]]
             ELSE [arrs |-> m.arrs,
                   Edges |-> Append(l.Edges, Edge(edgeType, nodeID, l2.RootElements))]
        ns == l.Nodes \o SelectSeq(l2.Nodes, LAMBDA p : m.nodes[p].Id \notin DOMAIN nlIndex)
    IN  IF RelateFails(m, x, nodeID) THEN m
        ELSE [nl |-> [m.nl EXCEPT ![x] = [l EXCEPT !.Nodes = ns, !.Edges = e.Edges]],
              nodes |-> m.nodes, arrs |-> e.arrs]

(***************************************************************************)
(* Equal.                                                                  *)
(***************************************************************************)
\* reflect.DeepEqual on two []string
DeepEqualSlices(a, s1, s2) ==
    /\ (s1.arr = 0 /\ s1.nil) = (s2.arr = 0 /\ s2.nil)
    /\ SliceVal(a, s1) = SliceVal(a, s2)

Count(s, x) == Cardinality({i \in 1..Len(s) : s[i] = x})

\* two lists of strings are equal once sorted
SortedEqual(s1, s2) ==
    /\ Len(s1) = Len(s2)
    /\ \A x \in Range(s1) \cup Range(s2) : Count(s1, x) = Count(s2, x)

\* lines 408-416: id -> flat string of the last node of that id
FlatNodes(h, l) ==
    LET index == indexNodes(h, l)
    IN  [id \in DOMAIN index |-> NodeFlatString(h[index[id]])]

\* nl.Equal(nl2), y = NoList for a nil argument: the value returned and the
\* arrays, whose root lists the call sorts
Equal(m, x, y) ==
    IF y = NoList THEN [eq |-> FALSE, arrs |-> m.arrs]
    ELSE
    LET l == m.nl[x]
        l2 == m.nl[y]
        a1 == SortInPlace(m.arrs, l.RootElements)
        a2 == SortInPlace(a1, l2.RootElements)
        nlEdges == [i \in 1..Len(l.Edges) |-> EdgeFlatString(a2, l.Edges[i])]
        nl2Edges == [i \in 1..Len(l2.Edges) |-> EdgeFlatString(a2, l2.Edges[i])]
    IN  IF \/ Len(l.Edges) # Len(l2.Edges)
           \/ Len(l.Nodes) # Len(l2.Nodes)
           \/ l.RootElements.len # l2.RootElements.len
        THEN [eq |-> FALSE, arrs |-> m.arrs]
        ELSE IF ~DeepEqualSlices(a2, l.RootElements, l2.RootElements)
        THEN [eq |-> FALSE, arrs |-> a2]
        ELSE IF ~SortedEqual(nlEdges, nl2Edges)
        THEN [eq |-> FALSE, arrs |-> a2]
        ELSE [eq |-> FlatNodes(m.nodes, l) = FlatNodes(m.nodes, l2), arrs |-> a2]

(***************************************************************************)
(* GetNodeByID, and a caller merging data into the node it returns.        *)
(***************************************************************************)
\* the pointer of the first node with the id, 0 for nil
GetNodeByID(h, l, id) ==
    LET hits == {i \in 1..Len(l.Nodes) : h[l.Nodes[i]].Id = id}
    IN  IF hits = {} THEN 0 ELSE l.Nodes[CHOOSE i \in hits : \A j \in hits : i <= j]

\* nl.GetNodeByID(id).Update(nl2.GetNodeByID(id))
UpdateNodeByID(m, x, y, id) ==
    LET n == GetNodeByID(m.nodes, m.nl[x], id)
        n2 == GetNodeByID(m.nodes, m.nl[y], id)
    IN  [m EXCEPT !.nodes[n] = Update(m.nodes[n], m.nodes[n2])]

(***************************************************************************)
(* The garbage collector: a node no list holds and an array no slice views *)
(* are freed, and the slots of an array no slice reaches are cleared.      *)
(***************************************************************************)
SlicesOf(m) ==
    {m.nl[x].RootElements : x \in Lists}
    \cup UNION {{m.nl[x].Edges[i].To : i \in 1..Len(m.nl[x].Edges)} : x \in Lists}

Collect(m) ==
    LET live == UNION {Range(m.nl[x].Nodes) : x \in Lists}
        views(id) == {s \in SlicesOf(m) : s.arr = id}
        reach(id) == CHOOSE n \in {s.len : s \in views(id)} :
                         \A s \in views(id) : s.len <= n
    IN  [nl |-> m.nl,
         nodes |-> [p \in NodeAddrs |-> IF p \in live THEN m.nodes[p] ELSE FreeNode],
         arrs |-> [id \in ArrIds |->
                     IF views(id) = {} THEN <<>>
                     ELSE [i \in 1..Len(m.arrs[id]) |->
                              IF i <= reach(id) THEN m.arrs[id][i] ELSE ""]]]

(***************************************************************************)
(* The inputs: the node lists a parser hands over.  Node ids are unique    *)
(* within a list; edges may dangle and may repeat an (origin, type) pair;  *)
(* a root list may have spare capacity.                                    *)
(***************************************************************************)
N(id, name, purl) == [Id |-> id, Name |-> name, Purl |-> purl]

E(t, from, to) == [Type |-> t, From |-> from, To |-> to]

InputLists ==
    { [Nodes |-> <<N("a", "n1", DebPurl), N("b", "", NoPurl)>>,
       Edges |-> <<E("dependsOn", "a", <<"b">>)>>,
       Roots |-> <<"a">>, Cap |-> 1],
      [Nodes |-> <<N("b", "n2", QuirkPurl), N("c", "", RpmPurl)>>,
       Edges |-> <<E("dependsOn", "b", <<"c">>)>>,
       Roots |-> <<"b">>, Cap |-> 2],
      [Nodes |-> <<N("c", "n1", DebPurl), N("a", "", QuirkPurl)>>,
       Edges |-> <<E("dependsOn", "a", <<"c", "z">>), E("dependsOn", "a", <<"a", "c">>),
                   E("contains", "c", <<"a">>)>>,
       Roots |-> <<"c", "a">>, Cap |-> 3],
      [Nodes |-> <<N("b", "", RpmPurl)>>,
       Edges |-> <<E("contains", "z", <<"b">>), E("contains", "b", <<"a">>)>>,
       Roots |-> <<"b">>, Cap |-> 1] }

\* the list value of an input whose nodes are stored from address base + 1
\* and whose root list is the array id
Load(in, base, id) ==
    [Nodes |-> [i \in 1..Len(in.Nodes) |-> base + i],
     Edges |-> [i \in 1..Len(in.Edges) |->
                   Edge(in.Edges[i].Type, in.Edges[i].From, OwnSlice(in.Edges[i].To))],
     RootElements |-> IF in.Cap = 0 THEN NilSlice
                      ELSE [arr |-> id, len |-> Len(in.Roots), own |-> <<>>, nil |-> FALSE]]

RemoveArgs == {<<"b">>, <<"c", "a">>}

PurlTypes == {BlankType, DebType}

AnchorIds == {"a", "b", "c"}

\* the (anchor id, edge type) pairs callers relate at
RelateArgs == {<<"a", "dependsOn">>, <<"c", "contains">>, <<"b", "contains">>}

\* the lists callers mutate and compare; B and the nil list are arguments only
Receivers == {"A", "R"}

(***************************************************************************)
(* The state machine: two input lists A and B, a list R that receives the  *)
(* result of the operations that return a list, and callers that apply up  *)
(* to MaxSteps operations.  `last` names the last operation and `pre` is   *)
(* the state it ran in.  `indep` holds the inputs R was made from by the   *)
(* last Union, Intersect or GetNodesByPurlType, as long as every operation *)
(* since was applied to R alone.                                           *)
(***************************************************************************)
M == [nl |-> nl, nodes |-> nodes, arrs |-> arrs]

NoOp == [op |-> "Init", x |-> NoList, y |-> NoList, dst |-> NoList, ids |-> <<>>,
         anchor |-> "", etype |-> "", ptype |-> <<>>, err |-> FALSE, eq |-> FALSE]

\* the state after the lists A and B were built from inputs of the sets
InitFrom(as, bs) ==
    \E ia \in as, ib \in bs :
        /\ nl = [x \in Lists |->
                    IF x = "A" THEN Load(ia, 0, 1)
                    ELSE IF x = "B" THEN Load(ib, Len(ia.Nodes), 2)
                    ELSE ZeroList]
        /\ nodes = [p \in NodeAddrs |->
                       IF p <= Len(ia.Nodes) THEN ia.Nodes[p]
                       ELSE IF p <= Len(ia.Nodes) + Len(ib.Nodes)
                       THEN ib.Nodes[p - Len(ia.Nodes)]
                       ELSE FreeNode]
        /\ arrs = [id \in ArrIds |->
                      IF id = 1 THEN Pad(ia.Roots, ia.Cap)
                      ELSE IF id = 2 THEN Pad(ib.Roots, ib.Cap)
                      ELSE <<>>]
        /\ last = NoOp
        /\ pre = [nl |-> nl, nodes |-> nodes, arrs |-> arrs]
        /\ steps = 0
        /\ indep = {}

Init == InitFrom(InputLists, InputLists)

Step(m2, l) ==
    LET c == Collect(m2)
    IN  /\ nl' = c.nl
        /\ nodes' = c.nodes
        /\ arrs' = c.arrs
        /\ last' = l
        /\ pre' = M
        /\ steps' = steps + 1

\* R was just made from x and y
Produced(x, y) == IF "R" \in {x, y} THEN {} ELSE {x, y} \ {NoList}

\* an operation was applied to x with the argument y
OnResult(x, y) == IF x = "R" THEN indep \ {y} ELSE {}

DoAdd ==
    /\ steps < MaxSteps
    /\ \E x \in Receivers, y \in Lists : \E m2 \in Add(M, x, y) :
        /\ Step(m2, [NoOp EXCEPT !.op = "Add", !.x = x, !.y = y, !.dst = x])
        /\ indep' = OnResult(x, y)

DoRemoveNodes ==
    /\ steps < MaxSteps
    /\ \E x \in Receivers, ids \in RemoveArgs : \E m2 \in RemoveNodes(M, x, ids) :
        /\ Step(m2, [NoOp EXCEPT !.op = "RemoveNodes", !.x = x, !.dst = x, !.ids = ids])
        /\ indep' = OnResult(x, NoList)

DoIntersect ==
    /\ steps < MaxSteps
    /\ \E x \in Lists : \E y \in Lists \ {x} : \E m2 \in Intersect(M, x, y, "R") :
        /\ Step(m2, [NoOp EXCEPT !.op = "Intersect", !.x = x, !.y = y, !.dst = "R"])
        /\ indep' = Produced(x, y)

DoUnion ==
    /\ steps < MaxSteps
    /\ \E x \in Lists : \E y \in Lists \ {x} : \E m2 \in Union(M, x, y, "R") :
        /\ Step(m2, [NoOp EXCEPT !.op = "Union", !.x = x, !.y = y, !.dst = "R"])
        /\ indep' = Produced(x, y)

DoGetNodesByPurlType ==
    /\ steps < MaxSteps
    /\ \E x \in Receivers \cup {NoList}, t \in PurlTypes :
       \E m2 \in GetNodesByPurlType(M, x, t, "R") :
        /\ Step(m2, [NoOp EXCEPT !.op = "GetNodesByPurlType", !.x = x, !.dst = "R",
                                 !.ptype = t])
        /\ indep' = Produced(x, NoList)

DoRelateNodeListAtID ==
    /\ steps < MaxSteps
    /\ \E x \in Receivers, y \in Lists, at \in RelateArgs :
        /\ Step(RelateNodeListAtID(M, x, y, at[1], at[2]),
                [NoOp EXCEPT !.op = "RelateNodeListAtID", !.x = x, !.y = y, !.dst = x,
                             !.anchor = at[1], !.etype = at[2],
                             !.err = RelateFails(M, x, at[1])])
        /\ indep' = OnResult(x, y)

DoEqual ==
    /\ steps < MaxSteps
    /\ \E x \in Receivers, y \in Lists \cup {NoList} :
       LET r == Equal(M, x, y)
       IN  /\ Step([M EXCEPT !.arrs = r.arrs],
                   [NoOp EXCEPT !.op = "Equal", !.x = x, !.y = y, !.eq = r.eq])
           /\ indep' = OnResult(x, y)

DoUpdateNodeByID ==
    /\ steps < MaxSteps
    /\ \E x \in Receivers, id \in AnchorIds : \E y \in Lists \ {x} :
        /\ GetNodeByID(nodes, nl[x], id) # 0
        /\ GetNodeByID(nodes, nl[y], id) # 0
        /\ Step(UpdateNodeByID(M, x, y, id),
                [NoOp EXCEPT !.op = "UpdateNodeByID", !.x = x, !.y = y, !.dst = x,
                             !.anchor = id])
        /\ indep' = OnResult(x, y)

Next ==
    \/ DoAdd
    \/ DoRemoveNodes
    \/ DoIntersect
    \/ DoUnion
    \/ DoGetNodesByPurlType
    \/ DoRelateNodeListAtID
    \/ DoEqual
    \/ DoUpdateNodeByID

Spec == Init /\ [][Next]_vars

(***************************************************************************)
(* Callers that build R as the Union of the inputs and splice the inputs   *)
(* into R with RelateNodeListAtID, for up to MaxSpliceSteps operations:    *)
(* the two operations that hand a root slice to a second owner (lines 262  *)
(* and 451).                                                               *)
(***************************************************************************)
SpliceUnion ==
    /\ steps < MaxSpliceSteps
    /\ \E x \in Lists \ {"R"} : \E y \in Lists \ {x, "R"} : \E m2 \in Union(M, x, y, "R") :
        /\ Step(m2, [NoOp EXCEPT !.op = "Union", !.x = x, !.y = y, !.dst = "R"])
        /\ indep' = Produced(x, y)

SpliceRelate ==
    /\ steps < MaxSpliceSteps
    /\ \E y \in Lists \ {"R"}, at \in RelateArgs :
        /\ Step(RelateNodeListAtID(M, "R", y, at[1], at[2]),
                [NoOp EXCEPT !.op = "RelateNodeListAtID", !.x = "R", !.y = y, !.dst = "R",
                             !.anchor = at[1], !.etype = at[2],
                             !.err = RelateFails(M, "R", at[1])])
        /\ indep' = OnResult("R", y)

NextSplice == SpliceUnion \/ SpliceRelate

\* the receiver's root list has spare capacity
InitSplice == InitFrom({in \in InputLists : in.Cap > Len(in.Roots)}, InputLists)

SpecSplice == InitSplice /\ [][NextSplice]_vars

(***************************************************************************)
(* Callers that merge lists with Add and Union, for up to MaxMergeSteps    *)
(* operations, the inputs including a list whose root list names an id     *)
(* twice (RootElements is a plain repeated field: nothing keeps a parser   *)
(* or a caller from repeating an id, and the shared arrays of lines 262    *)
(* and 451 can repeat one as well).                                        *)
(***************************************************************************)
MaxMergeSteps == 2

MergeInputs ==
    InputLists \cup
    { [Nodes |-> <<N("c", "n2", RpmPurl), N("b", "", NoPurl)>>,
       Edges |-> <<E("contains", "c", <<"b">>)>>,
       Roots |-> <<"c", "c">>, Cap |-> 2] }

MergeAdd ==
    /\ steps < MaxMergeSteps
    /\ \E x \in Receivers, y \in Lists : \E m2 \in Add(M, x, y) :
        /\ Step(m2, [NoOp EXCEPT !.op = "Add", !.x = x, !.y = y, !.dst = x])
        /\ indep' = OnResult(x, y)

MergeUnion ==
    /\ steps < MaxMergeSteps
    /\ \E x \in Lists : \E y \in Lists \ {x} : \E m2 \in Union(M, x, y, "R") :
        /\ Step(m2, [NoOp EXCEPT !.op = "Union", !.x = x, !.y = y, !.dst = "R"])
        /\ indep' = Produced(x, y)

NextMerge == MergeAdd \/ MergeUnion

InitMerge == InitFrom(MergeInputs, MergeInputs)

SpecMerge == InitMerge /\ [][NextMerge]_vars

(***************************************************************************)
(* Callers that compare lists with Equal, for up to MaxEqualSteps          *)
(* operations: a list, the same list with its roots, edges, nodes and      *)
(* destinations in another order, a list with another node name, and the   *)
(* zero list &NodeList{} (line 472), next to the lists Intersect returns.  *)
(***************************************************************************)
MaxEqualSteps == 2

EqualInputs ==
    { [Nodes |-> <<N("a", "n1", DebPurl), N("b", "", NoPurl)>>,
       Edges |-> <<E("dependsOn", "a", <<"b", "a">>), E("contains", "b", <<"a">>)>>,
       Roots |-> <<"a", "b">>, Cap |-> 2],
      [Nodes |-> <<N("b", "", NoPurl), N("a", "n1", DebPurl)>>,
       Edges |-> <<E("contains", "b", <<"a">>), E("dependsOn", "a", <<"a", "b">>)>>,
       Roots |-> <<"b", "a">>, Cap |-> 2],
      [Nodes |-> <<N("a", "n1", DebPurl), N("b", "n2", NoPurl)>>,
       Edges |-> <<E("dependsOn", "a", <<"b", "a">>), E("contains", "b", <<"a">>)>>,
       Roots |-> <<"a", "b">>, Cap |-> 2],
      [Nodes |-> <<>>, Edges |-> <<>>, Roots |-> <<>>, Cap |-> 0] }

EqualCompare ==
    /\ steps < MaxEqualSteps
    /\ \E x \in Receivers, y \in Lists \cup {NoList} :
       LET r == Equal(M, x, y)
       IN  /\ Step([M EXCEPT !.arrs = r.arrs],
                   [NoOp EXCEPT !.op = "Equal", !.x = x, !.y = y, !.eq = r.eq])
           /\ indep' = OnResult(x, y)

EqualIntersect ==
    /\ steps < MaxEqualSteps
    /\ \E x \in Lists : \E y \in Lists \ {x} : \E m2 \in Intersect(M, x, y, "R") :
        /\ Step(m2, [NoOp EXCEPT !.op = "Intersect", !.x = x, !.y = y, !.dst = "R"])
        /\ indep' = Produced(x, y)

NextEqual == EqualCompare \/ EqualIntersect

InitEqual == InitFrom(EqualInputs, EqualInputs)

SpecEqual == InitEqual /\ [][NextEqual]_vars

(***************************************************************************)
(* Callers inside the package that apply cleanEdges to a list as it is,    *)
(* after building it or after a RelateNodeListAtID (the one mutation that  *)
(* does not clean), for up to MaxCleanSteps operations.                    *)
(***************************************************************************)
MaxCleanSteps == 3

CleanEdgesOf ==
    /\ steps < MaxCleanSteps
    /\ \E x \in Receivers : \E clean \in cleanEdges(nodes, arrs, nl[x]) :
        /\ Step([M EXCEPT !.nl[x].Edges = clean],
                [NoOp EXCEPT !.op = "cleanEdges", !.x = x, !.dst = x])
        /\ indep' = OnResult(x, NoList)

CleanRelate ==
    /\ steps < MaxCleanSteps
    /\ \E x \in Receivers, y \in Lists, at \in RelateArgs :
        /\ Step(RelateNodeListAtID(M, x, y, at[1], at[2]),
                [NoOp EXCEPT !.op = "RelateNodeListAtID", !.x = x, !.y = y, !.dst = x,
                             !.anchor = at[1], !.etype = at[2],
                             !.err = RelateFails(M, x, at[1])])
        /\ indep' = OnResult(x, y)

NextClean == CleanEdgesOf \/ CleanRelate

SpecClean == Init /\ [][NextClean]_vars

(***************************************************************************)
(* What a caller can observe of a list: the fields of its nodes, its edges *)
(* with their destinations, and its root ids, all in order.                *)
(***************************************************************************)
ListView(m, x) ==
    LET l == m.nl[x]
    IN  [Nodes |-> [i \in 1..Len(l.Nodes) |-> m.nodes[l.Nodes[i]]],
         Edges |-> [i \in 1..Len(l.Edges) |->
                       E(l.Edges[i].Type, l.Edges[i].From, SliceVal(m.arrs, l.Edges[i].To))],
         Roots |-> SliceVal(m.arrs, l.RootElements)]

Now(x) == ListView(M, x)

Before(x) == ListView(pre, x)

IdSet(v) == {v.Nodes[i].Id : i \in 1..Len(v.Nodes)}

KeySet(v) == {<<v.Edges[i].From, v.Edges[i].Type>> : i \in 1..Len(v.Edges)}

\* the destinations of the edges of v with the key k
Dests(v, k) ==
    UNION {Range(v.Edges[i].To) :
              i \in {j \in 1..Len(v.Edges) : <<v.Edges[j].From, v.Edges[j].Type>> = k}}

UniqueIds(v) ==
    \A i, j \in 1..Len(v.Nodes) : v.Nodes[i].Id = v.Nodes[j].Id => i = j

NoDangling(v) ==
    \A i \in 1..Len(v.Edges) :
        v.Edges[i].From \in IdSet(v) /\ Range(v.Edges[i].To) \subseteq IdSet(v)

NoDuplicateKey(v) ==
    \A i, j \in 1..Len(v.Edges) :
        (v.Edges[i].From = v.Edges[j].From /\ v.Edges[i].Type = v.Edges[j].Type) => i = j

Cleaning == {"Add", "Union", "Intersect", "RemoveNodes", "GetNodesByPurlType"}

(***************************************************************************)
(* C1: whatever the inputs and the operations before, the list that Add,   *)
(* Union, Intersect, RemoveNodes or GetNodesByPurlType has just produced   *)
(* has no edge whose origin or destination is not one of its nodes, and no *)
(* two edges with the same (origin, type).                                 *)
(***************************************************************************)
C1_EdgeInvariants ==
    last.op \in Cleaning => NoDangling(Now(last.dst)) /\ NoDuplicateKey(Now(last.dst))

\* a second operation cleaned a list that held a dangling or a duplicate
\* edge and left edges with destinations
C1_Witness ==
    /\ steps >= 2
    /\ last.op \in Cleaning
    /\ \E x \in {last.x, last.y} \ {NoList} :
          ~(NoDangling(Before(x)) /\ NoDuplicateKey(Before(x)))
    /\ \E i \in 1..Len(Now(last.dst).Edges) : Now(last.dst).Edges[i].To # <<>>

(***************************************************************************)
(* C2 as stated: every edge of Intersect(A, B) has the (origin, type) of   *)
(* an edge of the receiver A.                                              *)
(***************************************************************************)
C2_OnlyReceiverEdges ==
    last.op = "Intersect" => KeySet(Now("R")) \subseteq KeySet(Before(last.x))

(***************************************************************************)
(* C2 amended: the (origin, type) pairs of the edges of Intersect(A, B)    *)
(* are those of the edges of A and of B whose origin is a node of the      *)
(* result, an edge found only in B included, and the destinations of each  *)
(* are the destinations of the edges of A and B with that pair that are    *)
(* nodes of the result.                                                    *)
(***************************************************************************)
C2_EdgesOfEither ==
    last.op = "Intersect" =>
        LET a == Before(last.x)
            b == Before(last.y)
            r == Now("R")
        IN  /\ KeySet(r) = {k \in KeySet(a) \cup KeySet(b) : k[1] \in IdSet(r)}
            /\ \A k \in KeySet(r) :
                  Dests(r, k) = (Dests(a, k) \cup Dests(b, k)) \cap IdSet(r)

\* Intersect returned an edge with a destination whose (origin, type) only
\* the argument has
C2_Witness ==
    /\ last.op = "Intersect"
    /\ \E k \in KeySet(Now("R")) :
          /\ k \notin KeySet(Before(last.x))
          /\ k \in KeySet(Before(last.y))
          /\ Dests(Now("R"), k) # {}

(***************************************************************************)
(* C3: Intersect returns no edge when no edge of the inputs has its origin *)
(* and a destination among the common nodes, and never an edge without     *)
(* destinations.                                                           *)
(***************************************************************************)
C3_NoEdgeWithoutDestination ==
    last.op = "Intersect" =>
        LET a == Before(last.x)
            b == Before(last.y)
            r == Now("R")
            inside(v) == \E i \in 1..Len(v.Edges) :
                            /\ v.Edges[i].From \in IdSet(r)
                            /\ Range(v.Edges[i].To) \cap IdSet(r) # {}
        IN  /\ (~inside(a) /\ ~inside(b)) => r.Edges = <<>>
            /\ \A i \in 1..Len(r.Edges) : r.Edges[i].To # <<>>

(***************************************************************************)
(* C4: after Add, a node whose id is in both lists holds the receiver's    *)
(* fields with the unset ones filled from the other list's node, and the   *)
(* nodes of the other list with a new id are appended.                     *)
(***************************************************************************)
C4_AddGapFills ==
    last.op = "Add" =>
        LET a == Before(last.x)
            b == Before(last.y)
            r == Now(last.x)
            new == SelectSeq(b.Nodes, LAMBDA n : n.Id \notin IdSet(a))
        IN  /\ Len(r.Nodes) = Len(a.Nodes) + Len(new)
            /\ \A i \in 1..Len(a.Nodes) :
                  r.Nodes[i] =
                      IF a.Nodes[i].Id \in IdSet(b)
                      THEN Augment(a.Nodes[i],
                                   b.Nodes[CHOOSE j \in 1..Len(b.Nodes) :
                                               b.Nodes[j].Id = a.Nodes[i].Id])
                      ELSE a.Nodes[i]
            /\ \A i \in 1..Len(new) : r.Nodes[Len(a.Nodes) + i] = new[i]

(***************************************************************************)
(* C5: the inputs of Union, Intersect and GetNodesByPurlType are untouched *)
(* by the call and by every later operation on the result: their nodes'    *)
(* fields, their edges and the order of their root ids stay what they      *)
(* were.                                                                   *)
(***************************************************************************)
C5_InputsIndependent == \A x \in indep : Now(x) = Before(x)

(***************************************************************************)
(* C6: GetNodesByPurlType with a blank purl type, or on a nil receiver,    *)
(* returns a list with no nodes, no edges and no roots.                    *)
(***************************************************************************)
C6_BlankTypeIsEmpty ==
    (last.op = "GetNodesByPurlType" /\ (last.ptype = BlankType \/ last.x = NoList)) =>
        /\ Now("R").Nodes = <<>>
        /\ Now("R").Edges = <<>>
        /\ Now("R").Roots = <<>>

(***************************************************************************)
(* C7: RelateNodeListAtID returns its not-found error exactly when no node *)
(* of the receiver has the anchor id, and then changes nothing; no other   *)
(* operation returns an error.                                             *)
(***************************************************************************)
C7_NotFoundIffAnchorAbsent ==
    /\ last.op = "RelateNodeListAtID" =>
          /\ last.err <=> last.anchor \notin IdSet(Before(last.x))
          /\ last.err => \A x \in Lists : Now(x) = Before(x)
    /\ last.op # "RelateNodeListAtID" => ~last.err

\* a splice failed on a receiver that has nodes and edges
C7_Witness ==
    /\ last.op = "RelateNodeListAtID"
    /\ last.err
    /\ Now(last.x).Nodes # <<>>
    /\ Now(last.x).Edges # <<>>
    /\ Now(last.y).Roots # <<>>

(***************************************************************************)
(* C8: a successful RelateNodeListAtID leaves the receiver's root list as  *)
(* it was, appends the nodes of the other list whose id is new, and either *)
(* extends the first edge of the anchor and type with the other list's     *)
(* root ids, in order and without deduplication, or appends one new edge   *)
(* from the anchor to those root ids; no other edge changes.               *)
(***************************************************************************)
C8_SpliceEffect ==
    (last.op = "RelateNodeListAtID" /\ ~last.err) =>
        LET a == Before(last.x)
            b == Before(last.y)
            r == Now(last.x)
            hits == {i \in 1..Len(a.Edges) :
                        a.Edges[i].From = last.anchor /\ a.Edges[i].Type = last.etype}
            first == CHOOSE i \in hits : \A j \in hits : i <= j
        IN  /\ r.Roots = a.Roots
            /\ r.Nodes = a.Nodes \o SelectSeq(b.Nodes, LAMBDA n : n.Id \notin IdSet(a))
            /\ r.Edges = IF hits = {}
                         THEN Append(a.Edges, E(last.etype, last.anchor, b.Roots))
                         ELSE [a.Edges EXCEPT ![first].To = @ \o b.Roots]

(***************************************************************************)
(* C9: when the node ids of each input are unique, the node ids of         *)
(* Intersect(A, B) are the ids in both A and B, those of Union(A, B) are   *)
(* the ids in A or B, and no id occurs twice in the result.                *)
(***************************************************************************)
C9_NodeIdSets ==
    (/\ last.op \in {"Intersect", "Union"}
     /\ UniqueIds(Before(last.x))
     /\ UniqueIds(Before(last.y))) =>
        /\ UniqueIds(Now("R"))
        /\ IdSet(Now("R")) = IF last.op = "Intersect"
                             THEN IdSet(Before(last.x)) \cap IdSet(Before(last.y))
                             ELSE IdSet(Before(last.x)) \cup IdSet(Before(last.y))

\* an Intersect of lists that share some node ids and not others
C9_Witness ==
    /\ last.op = "Intersect"
    /\ IdSet(Now("R")) # {}
    /\ IdSet(Before(last.x)) \ IdSet(Before(last.y)) # {}
    /\ IdSet(Before(last.y)) \ IdSet(Before(last.x)) # {}

(***************************************************************************)
(* C10: after RemoveNodes(ids) the receiver's nodes are its previous nodes *)
(* without those whose id is in ids, in the same order, and no edge has a  *)
(* removed id as its origin or among its destinations.                     *)
(***************************************************************************)
C10_RemoveNodes ==
    last.op = "RemoveNodes" =>
        LET a == Before(last.x)
            r == Now(last.x)
        IN  /\ r.Nodes = SelectSeq(a.Nodes, LAMBDA n : n.Id \notin Range(last.ids))
            /\ \A i \in 1..Len(r.Edges) :
                  /\ r.Edges[i].From \notin Range(last.ids)
                  /\ Range(r.Edges[i].To) \cap Range(last.ids) = {}

\* nodes were removed from a list whose edges led from and to them, and
\* nodes and edges are left
C10_Witness ==
    /\ last.op = "RemoveNodes"
    /\ Len(Now(last.x).Nodes) < Len(Before(last.x).Nodes)
    /\ Now(last.x).Nodes # <<>>
    /\ Now(last.x).Edges # <<>>
    /\ \E i \in 1..Len(Before(last.x).Edges) :
          /\ Before(last.x).Edges[i].From \in Range(last.ids)
    /\ \E i \in 1..Len(Before(last.x).Edges) :
          /\ Before(last.x).Edges[i].From \notin Range(last.ids)
          /\ Range(Before(last.x).Edges[i].To) \cap Range(last.ids) # {}

RECURSIVE Dedup(_, _)
\* the sequence v without the ids of seen and without repeats, first
\* occurrences kept in order
Dedup(v, seen) ==
    IF v = <<>> THEN <<>>
    ELSE IF Head(v) \in seen THEN Dedup(Tail(v), seen)
    ELSE <<Head(v)>> \o Dedup(Tail(v), seen \cup {Head(v)})

(***************************************************************************)
(* C11: the root list of Union(A, B), and of the receiver A after Add(B),  *)
(* holds every root id of A and of B, holds no id twice, and lists A's     *)
(* root ids in A's order followed by B's other root ids in B's order.      *)
(***************************************************************************)
C11_RootsDeduplicated ==
    last.op \in {"Union", "Add"} =>
        LET a == Before(last.x).Roots
            b == Before(last.y).Roots
            r == Now(last.dst).Roots
        IN  /\ Range(r) = Range(a) \cup Range(b)
            /\ \A i, j \in 1..Len(r) : r[i] = r[j] => i = j
            /\ r = Dedup(a \o b, {})

\* the edges of v, the destinations of each in sorted order
FlatEdges(v) ==
    [i \in 1..Len(v.Edges) |->
        <<v.Edges[i].Type, v.Edges[i].From, SortStrings(v.Edges[i].To)>>]

\* v and w hold the same root ids, the same edges with the same
\* destinations and the same nodes, in whatever order
SameUpToOrder(v, w) ==
    /\ SortedEqual(v.Roots, w.Roots)
    /\ SortedEqual(FlatEdges(v), FlatEdges(w))
    /\ UniqueIds(v) /\ UniqueIds(w)
    /\ Len(v.Nodes) = Len(w.Nodes)
    /\ Range(v.Nodes) = Range(w.Nodes)

(***************************************************************************)
(* C12: A.Equal(A) is true for every list A; Equal is true for two lists   *)
(* that hold the same root ids, edges, destinations and nodes (of unique   *)
(* ids) in whatever order; Equal is false when its argument is nil.        *)
(***************************************************************************)
C12_EqualUpToOrder ==
    last.op = "Equal" =>
        /\ last.y = NoList => ~last.eq
        /\ last.y = last.x => last.eq
        /\ (last.y # NoList /\ SameUpToOrder(Before(last.x), Before(last.y))) => last.eq

\* the position of an edge type in the order of sort.Strings
TypeRank(t) == IF t = "contains" THEN 1 ELSE 2

\* the edge list of v is in the order of its flattened strings (type, then
\* origin)
EdgesSorted(v) ==
    \A i, j \in 1..Len(v.Edges) :
        i < j =>
            \/ TypeRank(v.Edges[i].Type) < TypeRank(v.Edges[j].Type)
            \/ /\ v.Edges[i].Type = v.Edges[j].Type
               /\ Rank(v.Edges[i].From) <= Rank(v.Edges[j].From)

RootsSorted(v) == v.Roots = SortStrings(v.Roots)

\* the three lengths Equal compares first (lines 375-379) are the same
SameLengths(v, w) ==
    /\ Len(v.Edges) = Len(w.Edges)
    /\ Len(v.Nodes) = Len(w.Nodes)
    /\ Len(v.Roots) = Len(w.Roots)

EdgeSet(v) ==
    {<<v.Edges[i].From, v.Edges[i].Type, Range(v.Edges[i].To)>> : i \in 1..Len(v.Edges)}

\* the views of the list x after one more cleanEdges, one per map order
CleanedAgain(x) ==
    {ListView([M EXCEPT !.nl[x].Edges = clean], x) :
        clean \in cleanEdges(nodes, arrs, nl[x])}

(***************************************************************************)
(* C14: cleanEdges is idempotent: applied to a list it has just cleaned,   *)
(* it leaves the same edges, one per (origin, type), each with the same    *)
(* set of destinations.                                                    *)
(***************************************************************************)
C14_CleanEdgesIdempotent ==
    last.op = "cleanEdges" =>
        \A v \in CleanedAgain(last.x) :
            /\ EdgeSet(v) = EdgeSet(Now(last.x))
            /\ Len(v.Edges) = Len(Now(last.x).Edges)

\* cleanEdges ran on a list that held dangling or repeated edges and left
\* an edge with destinations and an edge without
C14_Witness ==
    /\ last.op = "cleanEdges"
    /\ ~(NoDangling(Before(last.x)) /\ NoDuplicateKey(Before(last.x)))
    /\ \E i \in 1..Len(Now(last.x).Edges) : Now(last.x).Edges[i].To # <<>>
    /\ \E i \in 1..Len(Now(last.x).Edges) : Now(last.x).Edges[i].To = <<>>

RECURSIVE Reach(_, _)
\* the ids reached from the ids of s along the edges of v, origin to
\* destination
Reach(v, s) ==
    LET next == s \cup UNION {Range(v.Edges[i].To) :
                                 i \in {j \in 1..Len(v.Edges) : v.Edges[j].From \in s}}
    IN  IF next = s THEN s ELSE Reach(v, next)

(***************************************************************************)
(* C15: in the list GetNodesByPurlType returns, every node is a root or is *)
(* reached from a root along the edges, origin to destination.             *)
(***************************************************************************)
C15_NodesReachable ==
    last.op = "GetNodesByPurlType" =>
        IdSet(Now("R")) \subseteq Reach(Now("R"), Range(Now("R").Roots))

\* the node of v with the id
NodeOf(v, id) == v.Nodes[CHOOSE i \in 1..Len(v.Nodes) : v.Nodes[i].Id = id]

NoRepeatedDestination(v) ==
    \A i \in 1..Len(v.Edges) :
        \A j, k \in 1..Len(v.Edges[i].To) : v.Edges[i].To[j] = v.Edges[i].To[k] => j = k

(***************************************************************************)
(* C17: right after a successful Add, RemoveNodes or RelateNodeListAtID    *)
(* the receiver's edges are sanitised: every origin and destination is a   *)
(* node, no two edges have the same (origin, type), and no edge names a    *)
(* destination twice.                                                      *)
(***************************************************************************)
C17_MutationsEndSanitised ==
    (last.op \in {"Add", "RemoveNodes", "RelateNodeListAtID"} /\ ~last.err) =>
        /\ NoDangling(Now(last.dst))
        /\ NoDuplicateKey(Now(last.dst))
        /\ NoRepeatedDestination(Now(last.dst))

(***************************************************************************)
(* C18: after A.Add(B), and in Union(A, B), every (origin, type) of an     *)
(* edge of A or B whose origin is a node of the result has exactly one     *)
(* edge in the result, and its destinations are the destinations of all    *)
(* the edges of A and B with that (origin, type) that are nodes of the     *)
(* result.                                                                 *)
(***************************************************************************)
C18_MergeKeepsEdges ==
    last.op \in {"Add", "Union"} =>
        LET a == Before(last.x)
            b == Before(last.y)
            r == Now(last.dst)
        IN  /\ KeySet(r) = {k \in KeySet(a) \cup KeySet(b) : k[1] \in IdSet(r)}
            /\ NoDuplicateKey(r)
            /\ \A k \in KeySet(r) :
                  Dests(r, k) = (Dests(a, k) \cup Dests(b, k)) \cap IdSet(r)

RECURSIVE Concat(_)
\* the sequences of ss joined in order
Concat(ss) == IF ss = <<>> THEN <<>> ELSE Head(ss) \o Concat(Tail(ss))

\* the destinations of the edges of v with the key k that are ids of ids,
\* in the order of their first occurrence
FirstOccurrence(v, k, ids) ==
    LET tos == [i \in 1..Len(v.Edges) |->
                   IF <<v.Edges[i].From, v.Edges[i].Type>> = k
                   THEN SelectSeq(v.Edges[i].To, LAMBDA d : d \in ids)
                   ELSE <<>>]
    IN  Dedup(Concat(tos), {})

\* the destination sequences cleanEdges can give the edge with the key k
\* of the list it was last applied to
Outcomes(k) ==
    UNION {{SliceVal(pre.arrs, es[i].To) :
               i \in {j \in 1..Len(es) : <<es[j].From, es[j].Type>> = k}} :
              es \in cleanEdges(pre.nodes, pre.arrs, pre.nl[last.x])}

(***************************************************************************)
(* C19 as stated: in each edge cleanEdges produces, the destinations are   *)
(* in the order of their first occurrence across the input edges collapsed *)
(* into it.                                                                *)
(***************************************************************************)
C19_FirstOccurrenceOrder ==
    last.op = "cleanEdges" =>
        \A i \in 1..Len(Now(last.x).Edges) :
            LET e == Now(last.x).Edges[i]
            IN  e.To = FirstOccurrence(Before(last.x), <<e.From, e.Type>>, IdSet(Now(last.x)))

(***************************************************************************)
(* C19 amended: in each edge cleanEdges produces, the destinations are the *)
(* destinations, among the ids of the list's nodes, of the input edges     *)
(* collapsed into it, each exactly once; their order is the order of a map *)
(* iteration, so that the same edge list can yield every order of them.    *)
(***************************************************************************)
C19_DestinationsOnceAnyOrder ==
    last.op = "cleanEdges" =>
        \A i \in 1..Len(Now(last.x).Edges) :
            LET e == Now(last.x).Edges[i]
                k == <<e.From, e.Type>>
            IN  /\ Range(e.To) = Dests(Before(last.x), k) \cap IdSet(Now(last.x))
                /\ \A j1, j2 \in 1..Len(e.To) : e.To[j1] = e.To[j2] => j1 = j2
                /\ Outcomes(k) = Orders(Range(e.To))

\* cleanEdges collapsed two edges into one whose destinations are not in
\* the order of their first occurrence
C19_Witness ==
    /\ last.op = "cleanEdges"
    /\ ~NoDuplicateKey(Before(last.x))
    /\ \E i \in 1..Len(Now(last.x).Edges) :
          LET e == Now(last.x).Edges[i]
          IN  /\ Len(e.To) >= 2
              /\ e.To # FirstOccurrence(Before(last.x), <<e.From, e.Type>>,
                                        IdSet(Now(last.x)))

(***************************************************************************)
(* C20: from lists whose node ids are unique, whatever Add, Union,         *)
(* Intersect, RemoveNodes, RelateNodeListAtID and GetNodesByPurlType are   *)
(* applied, no list holds two nodes with the same id.                      *)
(***************************************************************************)
C20_NodeIdsStayUnique == \A x \in Lists : UniqueIds(Now(x))

\* a second operation appended nodes to a list that already held a node of
\* an id of the other list
C20_Witness ==
    /\ steps >= 2
    /\ last.op \in {"Add", "RelateNodeListAtID", "Union"}
    /\ ~last.err
    /\ last.x # last.y
    /\ IdSet(Before(last.x)) \cap IdSet(Before(last.y)) # {}
    /\ IdSet(Before(last.y)) \ IdSet(Before(last.x)) # {}
    /\ Len(Now(last.dst).Nodes) > Len(Before(last.x).Nodes)

====
